---------------------------- MODULE Spec2Model ----------------------------
(***************************************************************************)
(* State-machine model of TaskGenerator (src/src/generator.py): the        *)
(* constructor, and generate_task_pair with its diagonal-box seeding, the  *)
(* recursive backtracking completion, puzzle carving, the solving-frame    *)
(* schedule, the difficulty label and the prompt chosen for it             *)
(* (get_prompt, src/src/prompts.py).                                       *)
(*                                                                         *)
(* Python lists are mutable objects: grids live in `heap` and the program  *)
(* variables grid / solution / puzzle / current_state hold references      *)
(* (indices into heap, 0 = not yet bound).                                 *)
(*                                                                         *)
(* The random source is an input.  random.shuffle and random.randint are   *)
(* computed as the library computes them from the values its generator     *)
(* delivers (random._randbelow), and so is random.choice; every action     *)
(* that draws takes those values as a parameter, and each call draws them  *)
(* independently of every other call.  Which values are explored is        *)
(* decided in Next alone.                                                  *)
(***************************************************************************)
EXTENDS Integers, Sequences, FiniteSets

(* ------------------------------ bounds --------------------------------- *)

\* outcomes of the random source explored at one call: picks 0 .. MaxPick
MaxPick == 1

\* _solve_sudoku calls nested less deep than this explore every pick for
\* their candidate order; deeper calls explore pick 0 alone
MaxOpenDepth == 1

\* hold_frames arguments explored: 0 .. MaxHold
MaxHold == 4

(* --------------------------- configurations ---------------------------- *)

\* TaskConfig defaults (config.py): min_givens 17, max_givens 35,
\* video_fps 15, target_video_duration 10.0, generate_videos True.
\* target_video_duration is a float; the configuration is written with
\* the decimal <<numerator, denominator>> and holds the double nearest to
\* it (py_float).
DefaultConfig ==
    [min_givens |-> 17, max_givens |-> 35, video_fps |-> 15,
     target_video_duration |-> <<10, 1>>, generate_videos |-> TRUE]

Configs ==
    { DefaultConfig,
      [DefaultConfig EXCEPT !.min_givens = 30, !.max_givens = 30,
                            !.generate_videos = FALSE],
      [DefaultConfig EXCEPT !.min_givens = 24, !.max_givens = 25,
                            !.generate_videos = FALSE],
      [DefaultConfig EXCEPT !.min_givens = 29, !.max_givens = 29,
                            !.generate_videos = FALSE],
      [DefaultConfig EXCEPT !.min_givens = 77, !.max_givens = 77,
                            !.video_fps = 1,
                            !.target_video_duration = <<7, 4>>],
      [DefaultConfig EXCEPT !.min_givens = 71, !.max_givens = 71,
                            !.video_fps = 1],
      [DefaultConfig EXCEPT !.min_givens = 77, !.max_givens = 77,
                            !.video_fps = 10,
                            !.target_video_duration = <<3, 10>>],
      [DefaultConfig EXCEPT !.min_givens = 81, !.max_givens = 81,
                            !.video_fps = 100,
                            !.target_video_duration = <<29, 100>>],
      [DefaultConfig EXCEPT !.min_givens = 40, !.max_givens = 30],
      [DefaultConfig EXCEPT !.min_givens = 80, !.max_givens = 90,
                            !.video_fps = 1] }

\* the constructions explored: a configuration, and what
\* VideoGenerator.is_available() answers in __init__ (line 35)
Constructions ==
    {[config |-> c, is_available |-> TRUE] : c \in Configs}
       \cup {[config |-> DefaultConfig, is_available |-> FALSE]}

(* ------------------------------ grids ---------------------------------- *)

Idx == 0 .. 8

\* [[0] * 9 for _ in range(9)]
EmptyGrid == [i \in Idx |-> [j \in Idx |-> 0]]

\* positions in row-major order: the nested loops `for i ... for j ...`
RowMajor == [p \in 1 .. 81 |-> << (p - 1) \div 9, (p - 1) % 9 >>]

\* the cells of a grid satisfying grid[i][j] == 0, in row-major order
\* (lines 309-313)
RECURSIVE EmptyCellsFrom(_, _)
EmptyCellsFrom(g, p) ==
    IF p > 81 THEN << >>
    ELSE LET c == RowMajor[p]
         IN  IF g[c[1]][c[2]] = 0
             THEN << c >> \o EmptyCellsFrom(g, p + 1)
             ELSE EmptyCellsFrom(g, p + 1)

EmptyCells(g) == EmptyCellsFrom(g, 1)

\* the row-major indices of the cells with grid[i][j] == 0
EmptyIndices(g) == {p \in 1 .. 81 : g[RowMajor[p][1]][RowMajor[p][2]] = 0}

\* sum(1 for row in puzzle for cell in row if cell != 0)
Givens(g) == Cardinality({p \in 1 .. 81 : g[RowMajor[p][1]][RowMajor[p][2]] # 0})

(* --------------------------- random source ----------------------------- *)

\* x[a], x[b] = x[b], x[a]   (a, b are Python's 0-based indices)
swap(x, a, b) == [x EXCEPT ![a + 1] = x[b + 1], ![b + 1] = x[a + 1]]

\* random.shuffle(x), from its k-th iteration on:
\*   for i in reversed(range(1, len(x))):
\*       j = randbelow(i + 1); x[i], x[j] = x[j], x[i]
\* js[k] is the value the k-th randbelow call of the shuffle delivered; v is
\* the list before the k-th iteration (i = len(x) - k, j = js[k])
RECURSIVE shuffle_from(_, _, _)
shuffle_from(x, js, k) ==
    IF k > Len(x) - 1 THEN x
    ELSE CHOOSE y \in {shuffle_from(swap(v, Len(v) - k, js[k]), js, k + 1) :
                          v \in {x}} : TRUE

\* random.shuffle(x): the list after the call, for a list x and the values
\* js of its len(x) - 1 randbelow calls (none for a list shorter than two)
shuffle(x, js) == shuffle_from(x, js, 1)

\* random.randint(a, b) for a <= b: a + randbelow(b - a + 1), where r is
\* the value randbelow delivered
randint(a, b, r) == a + r

\* js is a sequence of values the randbelow calls of a shuffle of n
\* elements can deliver: the k-th call is randbelow(n - k + 1), which
\* delivers any value of 0 .. n - k
IsRandbelows(js, n) ==
    /\ Len(js) = (IF n < 2 THEN 0 ELSE n - 1)
    /\ \A k \in 1 .. Len(js) : js[k] \in 0 .. n - k

\* the explored values: the value of 0 .. n-1 that randbelow(n) delivers
\* under pick p
randbelow(n, p) == ((((p + 1) * (n - 1)) \div 4) + p) % n

\* the values the randbelow calls of one shuffle of n elements deliver
\* under pick p
randbelows(n, p) ==
    [k \in 1 .. (IF n < 2 THEN 0 ELSE n - 1) |-> randbelow(n - k + 1, p)]

\* the picks explored at a call
Picks == 0 .. MaxPick

(* ------------------------------ state ---------------------------------- *)

VARIABLES
    config,         \* self.config (immutable after construction)
    video_generator,\* self.video_generator: "VideoGenerator" or "None"
    draws,          \* number of calls made to the random source so far
    pc,             \* position in generate_task_pair
    err,            \* exception that ended the call, "none" if none
    heap,           \* the grid objects allocated so far
    grid,           \* _generate_complete_sudoku: local `grid` (reference)
    solution,       \* generate_task_pair: `solution` (reference)
    puzzle,         \* generate_task_pair: `puzzle` (reference)
    box,            \* _generate_complete_sudoku: loop variable `box`
    stack,          \* active _solve_sudoku calls: [i, j, numbers, k], each
                    \* with the content of grid when the call was entered
    ret,            \* value returned by the _solve_sudoku call that just ended
    carve,          \* locals of _create_puzzle
    video,          \* locals of _create_solving_frames
    frames,         \* _create_solving_frames: the list `frames`
    difficulty,     \* generate_task_pair: `difficulty`
    prompt          \* generate_task_pair: `prompt`, "none" before line 55

vars == << config, video_generator, draws, pc, err, heap, grid, solution,
           puzzle, box, stack, ret, carve, video, frames, difficulty,
           prompt >>

solveVars == << stack, ret >>
laterVars == << carve, video, frames, difficulty, prompt >>

NoCarve == [target_givens |-> 0, target_removed |-> 0, removed |-> 0,
            positions |-> << >>, next |-> 1]

NoVideo == [hold_frames |-> 0, step_frames |-> 0, num_cells |-> 0,
            target_frames |-> 0, available_frames |-> 0,
            cells_to_fill |-> << >>, next |-> 1, current_state |-> 0]

\* TaskGenerator.__init__, lines 29-36: a video generator is made only if
\* the configuration asks for videos and VideoGenerator.is_available()
init_video_generator(cfg, is_available) ==
    IF cfg.generate_videos /\ is_available THEN "VideoGenerator" ELSE "None"

Init ==
    /\ \E c \in Constructions :
          /\ config = c.config
          /\ video_generator = init_video_generator(c.config, c.is_available)
    /\ draws = 0
    /\ pc = "start"
    /\ err = "none"
    /\ heap = << >>
    /\ grid = 0
    /\ solution = 0
    /\ puzzle = 0
    /\ box = 0
    /\ stack = << >>
    /\ ret = "none"
    /\ carve = NoCarve
    /\ video = NoVideo
    /\ frames = << >>
    /\ difficulty = "none"
    /\ prompt = "none"

(* ----------------------- complete-grid generation ---------------------- *)

\* _fill_box, lines 104-108: grid[row + i][col + j] = numbers[idx], idx += 1
fill_box(g, row, col, numbers) ==
    [r \in Idx |-> [c \in Idx |->
        IF r \in row .. row + 2 /\ c \in col .. col + 2
        THEN numbers[3 * (r - row) + (c - col) + 1]
        ELSE g[r][c]]]

\* a faulty _is_valid that omits the row check
is_valid_no_row(g, row, col, num) ==
    LET box_row == (row \div 3) * 3
        box_col == (col \div 3) * 3
    IN  /\ \A i \in Idx : g[i][col] # num
        /\ \A i \in 0 .. 2 : \A j \in 0 .. 2 :
              g[box_row + i][box_col + j] # num

\* _is_valid: num is absent from the row, the column and the 3x3 box
is_valid(g, row, col, num) ==
    LET box_row == (row \div 3) * 3
        box_col == (col \div 3) * 3
    IN  /\ \A j \in Idx : g[row][j] # num
        /\ \A i \in Idx : g[i][col] # num
        /\ \A i \in 0 .. 2 : \A j \in 0 .. 2 :
              g[box_row + i][box_col + j] # num

\* a faulty scan that stops one column short (for j in range(8))
FirstEmptyShortScan(g) ==
    LET E == {p \in EmptyIndices(g) : RowMajor[p][2] < 8}
    IN  IF E = {} THEN << >>
        ELSE RowMajor[CHOOSE p \in E : \A q \in E : p <= q]

\* _solve_sudoku, lines 112-114: the first cell, in row-major order, with
\* grid[i][j] == 0; << >> when the loops run to the end
FirstEmpty(g) ==
    LET E == EmptyIndices(g)
    IN  IF E = {} THEN << >>
        ELSE RowMajor[CHOOSE p \in E : \A q \in E : p <= q]

\* list(range(1, 10))
Digits == [k \in 1 .. 9 |-> k]

\* generate_task_pair -> _generate_sudoku -> _generate_complete_sudoku,
\* line 88: grid = [[0] * 9 for _ in range(9)]
StartGenerate ==
    /\ pc = "start"
    /\ heap' = Append(heap, EmptyGrid)
    /\ grid' = Len(heap) + 1
    /\ box' = 0
    /\ pc' = "fill_boxes"
    /\ UNCHANGED << config, video_generator, draws, err, solution, puzzle >>
    /\ UNCHANGED solveVars
    /\ UNCHANGED laterVars

\* lines 91-92: one iteration of `for box in range(0, 9, 3)`; js are the
\* values delivered to the shuffle of line 102
FillBox(js) ==
    /\ pc = "fill_boxes"
    /\ box < 9
    /\ IsRandbelows(js, 9)
    /\ heap' = [heap EXCEPT
                  ![grid] = fill_box(heap[grid], box, box, shuffle(Digits, js))]
    /\ draws' = draws + 1
    /\ box' = box + 3
    /\ pc' = IF box + 3 < 9 THEN "fill_boxes" ELSE "solve_call"
    /\ UNCHANGED << config, video_generator, err, grid, solution, puzzle >>
    /\ UNCHANGED solveVars
    /\ UNCHANGED laterVars

\* entry of a _solve_sudoku call (line 95 at the top level, line 121 when
\* nested): scan for the first empty cell; none: return True (line 125);
\* otherwise shuffle the candidates and start the for loop (lines 115-118);
\* js are the values delivered to the shuffle of line 116
SolveCall(js) ==
    /\ pc = "solve_call"
    /\ LET cell == FirstEmpty(heap[grid])
       IN  IF cell = << >>
           THEN /\ ret' = "True"
                /\ pc' = "solve_return"
                /\ UNCHANGED << draws, stack >>
           ELSE /\ IsRandbelows(js, 9)
                /\ stack' = Append(stack,
                               [i |-> cell[1], j |-> cell[2],
                                numbers |-> shuffle(Digits, js), k |-> 1,
                                received |-> heap[grid]])
                /\ draws' = draws + 1
                /\ pc' = "solve_loop"
                /\ UNCHANGED ret
    /\ UNCHANGED << config, video_generator, err, heap, grid, solution,
                    puzzle, box >>
    /\ UNCHANGED laterVars

\* lines 118-121: one iteration of `for num in numbers`: a valid candidate
\* is placed and the search recurses; an invalid one is skipped
SolveTry ==
    /\ pc = "solve_loop"
    /\ LET f   == stack[Len(stack)]
       IN  /\ f.k <= 9
           /\ IF is_valid(heap[grid], f.i, f.j, f.numbers[f.k])
              THEN /\ heap' = [heap EXCEPT ![grid][f.i][f.j] = f.numbers[f.k]]
                   /\ pc' = "solve_call"
                   /\ UNCHANGED stack
              ELSE /\ stack' = [stack EXCEPT ![Len(stack)].k = f.k + 1]
                   /\ UNCHANGED << heap, pc >>
    /\ UNCHANGED << config, video_generator, draws, err, grid, solution,
                    puzzle, box, ret >>
    /\ UNCHANGED laterVars

\* line 124: the candidates are exhausted: return False
SolveExhausted ==
    /\ pc = "solve_loop"
    /\ stack[Len(stack)].k > 9
    /\ stack' = SubSeq(stack, 1, Len(stack) - 1)
    /\ ret' = "False"
    /\ pc' = "solve_return"
    /\ UNCHANGED << config, video_generator, draws, err, heap, grid,
                    solution, puzzle, box >>
    /\ UNCHANGED laterVars

\* a faulty backtrack that leaves the tried digit in the cell
clear_cell_kept(g, i, j) == g

\* line 123: grid[i][j] = 0
clear_cell(g, i, j) == [g EXCEPT ![i][j] = 0]

\* a nested call has returned to line 121 of its caller: True is passed on
\* (line 122); on False the cell is cleared (line 123) and the loop goes on
SolveResume ==
    /\ pc = "solve_return"
    /\ stack # << >>
    /\ LET f == stack[Len(stack)]
       IN  IF ret = "True"
           THEN /\ stack' = SubSeq(stack, 1, Len(stack) - 1)
                /\ UNCHANGED << heap, pc, ret >>
           ELSE /\ heap' = [heap EXCEPT ![grid] = clear_cell(heap[grid], f.i, f.j)]
                /\ stack' = [stack EXCEPT ![Len(stack)].k = f.k + 1]
                /\ pc' = "solve_loop"
                /\ ret' = "none"
    /\ UNCHANGED << config, video_generator, draws, err, grid, solution,
                    puzzle, box >>
    /\ UNCHANGED laterVars

\* [row[:] for row in g]: the heap after the copy is allocated
CopyGrid(h, ref) == Append(h, h[ref])

\* a faulty copy that binds the same object instead of a new one
CopyRefAliased(h, ref) == ref

\* [row[:] for row in g]: the reference of the new object
CopyRef(h, ref) == Len(h) + 1

\* the top-level call has returned to line 95, where its result is
\* discarded; line 97 returns grid, line 78 binds it to solution, and
\* line 81 makes puzzle a row-by-row copy
SolveDone ==
    /\ pc = "solve_return"
    /\ stack = << >>
    /\ solution' = grid
    /\ puzzle' = CopyRef(heap, grid)
    /\ heap' = CopyGrid(heap, grid)
    /\ pc' = "create_puzzle"
    /\ UNCHANGED << config, video_generator, draws, err, grid, box >>
    /\ UNCHANGED solveVars
    /\ UNCHANGED laterVars

(* ------------------------------ carving -------------------------------- *)

\* a faulty loop test that stops one removal late (removed > target_removed)
carve_stop_late(removed, target_removed) == removed > target_removed

\* line 166: if removed >= target_removed: break
carve_stop(removed, target_removed) == removed >= target_removed

\* _create_puzzle, lines 152-163.  random.randint(a, b) raises ValueError
\* for b < a (empty range) before drawing anything.  r is the value
\* delivered to the randint of line 154, js are the values delivered to the
\* shuffle of line 158.
CreatePuzzle(r, js) ==
    /\ pc = "create_puzzle"
    /\ IF config.max_givens < config.min_givens
       THEN /\ pc' = "error"
            /\ err' = "ValueError"
            /\ UNCHANGED << draws, carve >>
       ELSE LET target_givens ==
                    randint(config.min_givens, config.max_givens, r)
            IN  /\ r \in 0 .. config.max_givens - config.min_givens
                /\ IsRandbelows(js, 81)
                /\ carve' = [target_givens  |-> target_givens,
                             target_removed |-> 81 - target_givens,
                             removed        |-> 0,
                             positions      |-> shuffle(RowMajor, js),
                             next           |-> 1]
                /\ draws' = draws + 2
                /\ pc' = "carve_loop"
                /\ UNCHANGED err
    /\ UNCHANGED << config, video_generator, heap, grid, solution, puzzle,
                    box >>
    /\ UNCHANGED solveVars
    /\ UNCHANGED << video, frames, difficulty, prompt >>

\* lines 165-176: one iteration of `for row, col in positions`
CarveStep ==
    /\ pc = "carve_loop"
    /\ carve.next <= 81
    /\ ~ carve_stop(carve.removed, carve.target_removed)
    /\ LET cell == carve.positions[carve.next]
       IN  heap' = [heap EXCEPT ![puzzle][cell[1]][cell[2]] = 0]
    /\ carve' = [carve EXCEPT !.removed = @ + 1, !.next = @ + 1]
    /\ UNCHANGED << config, video_generator, draws, pc, err, grid, solution,
                    puzzle, box >>
    /\ UNCHANGED solveVars
    /\ UNCHANGED << video, frames, difficulty, prompt >>

\* the loop ends (line 167 break, or positions exhausted); line 178 returns
\* puzzle and line 84 returns (puzzle, solution) to generate_task_pair,
\* which goes on to the video (line 50: generate_videos and a video
\* generator) or to the difficulty (line 54)
CarveReturn ==
    /\ pc = "carve_loop"
    /\ carve.next > 81 \/ carve_stop(carve.removed, carve.target_removed)
    /\ pc' = IF config.generate_videos /\ video_generator # "None"
             THEN "video" ELSE "assess"
    /\ UNCHANGED << config, video_generator, draws, err, heap, grid,
                    solution, puzzle, box >>
    /\ UNCHANGED solveVars
    /\ UNCHANGED laterVars

(* --------------------------- solving frames ---------------------------- *)

\* a faulty target that rounds duration * fps to the nearest integer
target_frames_rounded(cfg) ==
    (2 * cfg.target_video_duration[1] * cfg.video_fps
        + cfg.target_video_duration[2])
       \div (2 * cfg.target_video_duration[2])

(* Floating point.  A float is kept as [bits, scale]: its magnitude is the *)
(* natural number written by bits (most significant first) times          *)
(* 2^(-scale).  Python floats are IEEE-754 doubles: 53 significant bits,   *)
(* results rounded to the nearest double, an exact half going to the even  *)
(* neighbour.                                                              *)

\* the natural number written by the bits b
bits_value(b) ==
    LET v[k \in 0 .. Len(b)] == IF k = 0 THEN 0 ELSE 2 * v[k - 1] + b[k]
    IN  v[Len(b)]

\* the bits of the natural number n, << >> for 0
bits_of(n) ==
    LET w[m \in 0 .. n] ==
            IF m = 0 THEN << >> ELSE Append(w[m \div 2], m % 2)
    IN  w[n]

\* b without its leading zeros
significant(b) ==
    LET ones == {i \in 1 .. Len(b) : b[i] = 1}
    IN  IF ones = {} THEN << >>
        ELSE SubSeq(b, CHOOSE i \in ones : \A k \in ones : i <= k, Len(b))

\* b + 1 on bits
increment(b) ==
    LET zeros == {i \in 1 .. Len(b) : b[i] = 0}
    IN  IF zeros = {} THEN << 1 >> \o [i \in 1 .. Len(b) |-> 0]
        ELSE LET j == CHOOSE i \in zeros : \A k \in zeros : k <= i
             IN  [i \in 1 .. Len(b) |->
                    IF i < j THEN b[i] ELSE IF i = j THEN 1 ELSE 0]

\* the double nearest to bits * 2^(-scale), where sticky says that the
\* exact value has further non-zero bits below those of b
round_to_double(b, scale, sticky) ==
    LET s == significant(b)
        L == Len(s)
    IN  IF L <= 53 THEN [bits |-> s, scale |-> scale]
        ELSE LET keep == SubSeq(s, 1, 53)
                 rest == sticky \/ \E i \in 55 .. L : s[i] = 1
                 up   == s[54] = 1 /\ (rest \/ keep[53] = 1)
             IN  [bits  |-> IF up THEN increment(keep) ELSE keep,
                  scale |-> scale - (L - 53)]

\* the 8 bits of v, 0 <= v < 256
byte(v) == [i \in 1 .. 8 |-> (v \div (2 ^ (8 - i))) % 2]

\* the float a configuration holds for the decimal num / den (num >= 0,
\* 0 < den < 2^23): the nearest double.  80 bits of the binary expansion
\* after the point are taken, 8 at a time, which leaves at least 54
\* significant bits; sticky tells whether the expansion goes on.
py_float(num, den) ==
    LET x[k \in 0 .. 10] ==
            IF k = 0 THEN [r |-> num % den, b |-> bits_of(num \div den)]
            ELSE LET p == x[k - 1]
                 IN  [r |-> (256 * p.r) % den,
                      b |-> p.b \o byte((256 * p.r) \div den)]
    IN  round_to_double(x[10].b, 80, x[10].r # 0)

\* float * int for a natural number n: the exact product, rounded
float_mul(f, n) ==
    LET b == f.bits
        L == Len(b)
        c[k \in 0 .. L] ==
            IF k = 0 THEN 0 ELSE (b[L - k + 1] * n + c[k - 1]) \div 2
        product == bits_of(c[L])
                      \o [i \in 1 .. L |-> (b[i] * n + c[L - i]) % 2]
    IN  round_to_double(product, f.scale, FALSE)

\* int(f) for a float of magnitude f: the fraction is dropped
py_int(f) ==
    IF f.scale <= 0
    THEN bits_value(f.bits \o [i \in 1 .. 0 - f.scale |-> 0])
    ELSE IF f.scale >= Len(f.bits) THEN 0
    ELSE bits_value(SubSeq(f.bits, 1, Len(f.bits) - f.scale))

\* line 318: int(self.config.target_video_duration * self.config.video_fps):
\* the product is a double, rounded from the exact product of the double
\* target_video_duration and video_fps; int() drops its fraction, towards
\* zero for either sign
target_frames(cfg) ==
    LET num == cfg.target_video_duration[1]
        den == cfg.target_video_duration[2]
        fps == cfg.video_fps
        magnitude ==
            py_int(float_mul(py_float(IF num < 0 THEN 0 - num ELSE num, den),
                             IF fps < 0 THEN 0 - fps ELSE fps))
    IN  IF (num < 0) # (fps < 0) THEN 0 - magnitude ELSE magnitude

\* max(1, x)
Max1(x) == IF x < 1 THEN 1 ELSE x

\* round(a / n) for a >= 0, n > 0: Python 3 rounds an exact half to the
\* even neighbour
py_round(a, n) ==
    LET q == a \div n
        r == a % n
    IN  IF 2 * r < n THEN q
        ELSE IF 2 * r > n THEN q + 1
        ELSE IF q % 2 = 0 THEN q ELSE q + 1

\* lines 325-332, step_frames is None
step_frames(available_frames, num_cells) ==
    IF num_cells > 0 THEN Max1(py_round(available_frames, num_cells)) ELSE 1

\* a faulty repetition that appends one frame too many
repeat_one_more(frame, n) == [k \in 1 .. n + 1 |-> frame]

\* for _ in range(n): frames.append(frame)
repeat(frame, n) == [k \in 1 .. n |-> frame]

\* a faulty render call that drops the highlighted cells
render_sudoku_plain(g, highlight_cells) ==
    [grid |-> g, highlight_cells |-> << >>]

\* _render_sudoku(grid, highlight_cells): the image is determined by the
\* grid's content at the time of the call and by the highlighted cells
render_sudoku(g, highlight_cells) ==
    [grid |-> g, highlight_cells |-> highlight_cells]

\* a faulty fill that reads the solution at the transposed position
fill_cell_transposed(state, sol, row, col) ==
    [state EXCEPT ![row][col] = sol[col][row]]

\* line 347: current_state[row][col] = solution[row][col]
fill_cell(state, sol, row, col) ==
    [state EXCEPT ![row][col] = sol[row][col]]

\* _create_solving_frames(puzzle, solution, hold_frames), lines 306-343:
\* the cells to fill, the frame budget, the initial hold, the shuffle and
\* the copy of puzzle into current_state; js are the values delivered to
\* the shuffle of line 340.  generate_task_pair reaches it through
\* _generate_video, which passes no hold_frames (the default, 4); the
\* function takes any hold_frames.
FramesStart(hold_frames, js) ==
    /\ pc = "video"
    /\ LET cells     == EmptyCells(heap[puzzle])
           target    == target_frames(config)
           available == Max1(target - hold_frames * 2)
       IN  /\ hold_frames >= 0
           /\ IsRandbelows(js, Len(cells))
           /\ video' = [hold_frames      |-> hold_frames,
                        step_frames      |-> step_frames(available, Len(cells)),
                        num_cells        |-> Len(cells),
                        target_frames    |-> target,
                        available_frames |-> available,
                        cells_to_fill    |-> shuffle(cells, js),
                        next             |-> 1,
                        current_state    |-> CopyRef(heap, puzzle)]
           /\ frames' = repeat(render_sudoku(heap[puzzle], << >>), hold_frames)
    /\ draws' = draws + 1
    /\ heap' = CopyGrid(heap, puzzle)
    /\ pc' = "frames_loop"
    /\ UNCHANGED << config, video_generator, err, grid, solution, puzzle,
                    box >>
    /\ UNCHANGED solveVars
    /\ UNCHANGED << carve, difficulty, prompt >>

\* lines 345-354: one iteration of `for row, col in cells_to_fill`
FramesStep ==
    /\ pc = "frames_loop"
    /\ video.next <= Len(video.cells_to_fill)
    /\ LET cell  == video.cells_to_fill[video.next]
           state == fill_cell(heap[video.current_state], heap[solution],
                              cell[1], cell[2])
       IN  /\ heap' = [heap EXCEPT ![video.current_state] = state]
           /\ frames' = frames \o repeat(render_sudoku(state, << cell >>),
                                         video.step_frames)
    /\ video' = [video EXCEPT !.next = @ + 1]
    /\ UNCHANGED << config, video_generator, draws, pc, err, grid, solution,
                    puzzle, box >>
    /\ UNCHANGED solveVars
    /\ UNCHANGED << carve, difficulty, prompt >>

\* lines 356-361: the final hold and the return to _generate_video
FramesReturn ==
    /\ pc = "frames_loop"
    /\ video.next > Len(video.cells_to_fill)
    /\ frames' = frames \o repeat(render_sudoku(heap[solution], << >>),
                                  video.hold_frames)
    /\ pc' = "assess"
    /\ UNCHANGED << config, video_generator, draws, err, heap, grid,
                    solution, puzzle, box >>
    /\ UNCHANGED solveVars
    /\ UNCHANGED << carve, video, difficulty, prompt >>

(* ----------------------------- difficulty ------------------------------ *)

\* a faulty threshold (givens > 30)
assess_difficulty_strict(p) ==
    LET givens == Givens(p)
    IN  IF givens > 30 THEN "easy"
        ELSE IF givens >= 25 THEN "medium"
        ELSE "hard"

\* _assess_difficulty, lines 182-189
assess_difficulty(p) ==
    LET givens == Givens(p)
    IN  IF givens >= 30 THEN "easy"
        ELSE IF givens >= 25 THEN "medium"
        ELSE "hard"

\* prompts.py, lines 16-40: three prompts per task type; each text is
\* named by its task type and its index in the list
PROMPTS ==
    [default |-> << "default[0]", "default[1]", "default[2]" >>,
     easy    |-> << "easy[0]", "easy[1]", "easy[2]" >>,
     medium  |-> << "medium[0]", "medium[1]", "medium[2]" >>,
     hard    |-> << "hard[0]", "hard[1]", "hard[2]" >>]

\* random.choice(seq): seq[randbelow(len(seq))], r the value delivered
choice(seq, r) == seq[r + 1]

\* PROMPTS.get(task_type, PROMPTS["default"]), prompts.py line 53
prompts_get(task_type) ==
    IF task_type \in DOMAIN PROMPTS THEN PROMPTS[task_type]
    ELSE PROMPTS["default"]

\* get_prompt, prompts.py lines 53-54: one of the prompts of the task type
get_prompt(task_type, r) == choice(prompts_get(task_type), r)

\* generate_task_pair, lines 54-64: the difficulty, the prompt chosen for
\* it (one call to the random source, r the value delivered) and the
\* return of the task pair
Assess(r) ==
    /\ pc = "assess"
    /\ r \in 0 .. Len(prompts_get(assess_difficulty(heap[puzzle]))) - 1
    /\ difficulty' = assess_difficulty(heap[puzzle])
    /\ prompt' = get_prompt(assess_difficulty(heap[puzzle]), r)
    /\ draws' = draws + 1
    /\ pc' = "done"
    /\ UNCHANGED << config, video_generator, err, heap, grid,
                    solution, puzzle, box >>
    /\ UNCHANGED solveVars
    /\ UNCHANGED << carve, video, frames >>

(* --------------------------- specification ----------------------------- *)

\* the picks explored for the candidate order of the _solve_sudoku call
\* about to be entered
OpenPicks == IF Len(stack) < MaxOpenDepth THEN Picks ELSE {0}

\* the number of values random.randint(min_givens, max_givens) chooses from
\* (1 where the call raises and draws nothing)
Width ==
    IF config.max_givens < config.min_givens THEN 1
    ELSE config.max_givens - config.min_givens + 1

\* the values explored for the draws of _create_puzzle
DrawCreatePuzzle ==
    \E p \in Picks : \E q \in Picks :
        CreatePuzzle(randbelow(Width, p), randbelows(81, q))

\* the arguments and values explored for _create_solving_frames
DrawFramesStart ==
    \E hold_frames \in 0 .. MaxHold : \E p \in Picks :
        FramesStart(hold_frames,
                    randbelows(Cardinality(EmptyIndices(heap[puzzle])), p))

Next ==
    \/ StartGenerate
    \/ \E p \in Picks : FillBox(randbelows(9, p))
    \/ \E p \in OpenPicks : SolveCall(randbelows(9, p))
    \/ SolveTry
    \/ SolveExhausted
    \/ SolveResume
    \/ SolveDone
    \/ DrawCreatePuzzle
    \/ CarveStep
    \/ CarveReturn
    \/ DrawFramesStart
    \/ FramesStep
    \/ FramesReturn
    \/ \E p \in Picks : Assess(randbelow(3, p))

Spec == Init /\ [][Next]_vars

\* the complete-grid generation alone: the search does not read the
\* configuration
SearchInit == Init /\ config = DefaultConfig /\ video_generator # "None"

SearchNext ==
    \/ StartGenerate
    \/ \E p \in Picks : FillBox(randbelows(9, p))
    \/ \E p \in OpenPicks : SolveCall(randbelows(9, p))
    \/ SolveTry
    \/ SolveExhausted
    \/ SolveResume

\* the call is synchronous and single-threaded: a step that can be taken
\* is taken
SearchSpec == SearchInit /\ [][SearchNext]_vars /\ WF_vars(SearchNext)

(* ------------------------------- claims -------------------------------- *)

\* every row, column and aligned 3x3 box of g holds each digit 1-9
ValidComplete(g) ==
    /\ \A i \in Idx : {g[i][j] : j \in Idx} = 1 .. 9
    /\ \A j \in Idx : {g[i][j] : i \in Idx} = 1 .. 9
    /\ \A bi \in {0, 3, 6} : \A bj \in {0, 3, 6} :
          {g[bi + i][bj + j] : i \in 0 .. 2, j \in 0 .. 2} = 1 .. 9

\* _generate_sudoku has returned (puzzle, solution)
SudokuReturned == pc \in {"video", "frames_loop", "assess", "done"}

\* _create_solving_frames has returned its frames
FramesReturned ==
    /\ config.generate_videos
    /\ video_generator # "None"
    /\ pc \in {"assess", "done"}

\* the configuration the core assumes
ValidConfig ==
    /\ 0 < config.min_givens
    /\ config.min_givens <= config.max_givens
    /\ config.max_givens <= 81

\* number of zero cells of the puzzle
NumEmpty == 81 - Givens(heap[puzzle])

\* C1: the grid returned by _generate_complete_sudoku has no empty cell and
\* each of its rows, columns and 3x3 boxes contains each digit 1-9 exactly
\* once.
C1_SolutionValid ==
    solution # 0 => ValidComplete(heap[solution])

C1_Witness ==
    /\ pc = "create_puzzle"
    /\ solution # 0
    /\ ValidComplete(heap[solution])

\* C2: for a valid configuration the returned puzzle has between min_givens
\* and max_givens non-zero cells; exactly k when min_givens = max_givens = k.
C2_GivenCountBound ==
    (SudokuReturned /\ ValidConfig) =>
        /\ Givens(heap[puzzle]) >= config.min_givens
        /\ Givens(heap[puzzle]) <= config.max_givens

C2_Witness ==
    /\ SudokuReturned
    /\ config.min_givens = 30
    /\ config.max_givens = 30
    /\ Givens(heap[puzzle]) = 30

\* every non-zero cell of puzzle equals the cell of solution at its position
Consistent ==
    \A i \in Idx : \A j \in Idx :
        heap[puzzle][i][j] # 0 => heap[puzzle][i][j] = heap[solution][i][j]

\* a step of _create_puzzle leaves the solution object as it was
CarvingKeepsSolution ==
    pc \in {"create_puzzle", "carve_loop"} => heap'[solution] = heap[solution]

\* C3: after every step of the carving loop and at return, each non-zero
\* cell of puzzle equals the same cell of solution, and no step of
\* _create_puzzle changes solution.
C3_PuzzleConsistent ==
    /\ [](puzzle # 0 => Consistent)
    /\ [][CarvingKeepsSolution]_vars

C3_Witness ==
    /\ pc = "carve_loop"
    /\ carve.removed > 0
    /\ Givens(heap[puzzle]) > 0
    /\ Givens(heap[puzzle]) < 81
    /\ Consistent

\* min_givens > max_givens, or max_givens > 81
ConfigOutOfRange ==
    \/ config.min_givens > config.max_givens
    \/ config.max_givens > 81

\* C4: with an out-of-range configuration a ConfigurationError is raised
\* before anything is drawn from the random source, and no puzzle is
\* returned.
C4_ConfigErrorFirst ==
    ConfigOutOfRange =>
        /\ draws = 0
        /\ ~ SudokuReturned
        /\ (pc \in {"done", "error"} => err = "ConfigurationError")

\* the cells highlighted by some frame of the sequence
Highlighted ==
    {frames[k].highlight_cells[1] :
        k \in {m \in 1 .. Len(frames) : frames[m].highlight_cells # << >>}}

\* C6: the sequence has exactly 2*hold_frames + step_frames*n frames, with
\* step_frames >= 1; for n = 0 it has exactly 2*hold_frames frames and none
\* of them has a highlighted cell.
C6_FrameCount ==
    FramesReturned =>
        /\ video.step_frames >= 1
        /\ Len(frames) = 2 * video.hold_frames + video.step_frames * NumEmpty
        /\ (NumEmpty = 0 =>
              /\ Len(frames) = 2 * video.hold_frames
              /\ \A k \in 1 .. Len(frames) : frames[k].highlight_cells = << >>)

C6_Witness ==
    /\ FramesReturned
    /\ NumEmpty > 0
    /\ video.hold_frames > 0
    /\ video.step_frames > 1
    /\ Len(frames) = 2 * video.hold_frames + video.step_frames * NumEmpty

\* C7 as stated: the sequence has a last frame, its grid equals solution,
\* and the number of distinct highlighted cells equals the number of zero
\* cells of puzzle, for every hold_frames >= 0 and every n.
C7_LastFrameIsSolution ==
    FramesReturned =>
        /\ Len(frames) > 0
        /\ frames[Len(frames)].grid = heap[solution]
        /\ Cardinality(Highlighted) = NumEmpty

\* C7 (amended): a non-empty sequence ends with a frame whose grid equals
\* solution; the sequence is empty exactly when hold_frames = 0 and n = 0;
\* the number of distinct highlighted cells equals the number of zero cells
\* of puzzle.
C7_LastFrameIfAny ==
    FramesReturned =>
        /\ (Len(frames) > 0 => frames[Len(frames)].grid = heap[solution])
        /\ (Len(frames) = 0 <=> (video.hold_frames = 0 /\ NumEmpty = 0))
        /\ Cardinality(Highlighted) = NumEmpty

C7_Witness ==
    /\ FramesReturned
    /\ video.hold_frames = 0
    /\ NumEmpty > 0
    /\ frames[Len(frames)].highlight_cells # << >>
    /\ frames[Len(frames)].grid = heap[solution]

\* _create_solving_frames has computed its frame budget
FramesStarted ==
    /\ config.generate_videos
    /\ video_generator # "None"
    /\ pc \in {"frames_loop", "assess", "done"}

Abs(x) == IF x < 0 THEN 0 - x ELSE x

\* r is available / n rounded to the nearest integer, an exact half going
\* to the even neighbour
RoundsTo(r, available, n) ==
    /\ 2 * Abs(r * n - available) <= n
    /\ (2 * Abs(r * n - available) = n => r % 2 = 0)

\* available_frames and step_frames as line 323 and lines 325-332 give them
BudgetFollows ==
    /\ video.available_frames = Max1(video.target_frames - 2 * video.hold_frames)
    /\ (NumEmpty = 0 => video.step_frames = 1)
    /\ (NumEmpty > 0 =>
          \E r \in 0 .. video.available_frames :
              /\ RoundsTo(r, video.available_frames, NumEmpty)
              /\ video.step_frames = Max1(r))

\* fps=1, target_duration=10, hold_frames=4, n=10
BudgetExample ==
    (/\ config.video_fps = 1
     /\ config.target_video_duration = << 10, 1 >>
     /\ video.hold_frames = 4
     /\ NumEmpty = 10)
    => /\ video.available_frames = 2
       /\ video.step_frames = 1
       /\ (FramesReturned => Len(frames) = 18)

\* C8 as stated: target_frames is target_duration*fps rounded to the
\* nearest integer, also for a fractional target_duration.
C8_TargetRounded ==
    FramesStarted =>
        /\ 2 * Abs(video.target_frames * config.target_video_duration[2]
                   - config.target_video_duration[1] * config.video_fps)
              <= config.target_video_duration[2]
        /\ BudgetFollows
        /\ BudgetExample

\* n is a power of two
IsPowerOfTwo(n) == \E k \in 0 .. 30 : n = 2 ^ k

\* target_frames against the decimal product num * fps / den of the written
\* configuration: a product that is no integer has its fraction dropped;
\* an integer product q gives q or, where the double product falls below
\* q, q - 1; a duration that is a double already gives the exact floor
TruncatedProduct ==
    LET num == config.target_video_duration[1]
        den == config.target_video_duration[2]
        p   == num * config.video_fps
        tf  == video.target_frames
    IN  /\ (p % den # 0 => tf = p \div den)
        /\ (p % den = 0 => tf \in {(p \div den) - 1, p \div den})
        /\ (IsPowerOfTwo(den) => tf = p \div den)

\* 1.75 * 1 -> 1, 0.3 * 10 -> 3, 0.29 * 100 -> 28, 10.0 * 15 -> 150
TruncatedExamples ==
    LET d   == config.target_video_duration
        fps == config.video_fps
        tf  == video.target_frames
    IN  /\ (d = << 7, 4 >> /\ fps = 1 => tf = 1)
        /\ (d = << 3, 10 >> /\ fps = 10 => tf = 3)
        /\ (d = << 29, 100 >> /\ fps = 100 => tf = 28)
        /\ (d = << 10, 1 >> /\ fps = 15 => tf = 150)

\* C8 (amended): target_frames is int() of the double-precision product
\* target_duration * fps: the fraction of the double product is dropped,
\* not rounded; available_frames = max(1, target_frames - 2*hold_frames);
\* step_frames = max(1, round(available_frames / n)) for n > 0 and 1 for
\* n = 0; the example gives available_frames=2, step_frames=1, 18 frames.
C8_TargetTruncated ==
    FramesStarted =>
        /\ TruncatedProduct
        /\ TruncatedExamples
        /\ BudgetFollows
        /\ BudgetExample

\* a fractional duration whose double product is rounded before int()
C8_Witness ==
    /\ FramesStarted
    /\ config.target_video_duration = << 3, 10 >>
    /\ config.video_fps = 10
    /\ NumEmpty > 0
    /\ video.target_frames = 3
    /\ video.step_frames = 1

\* the label the thresholds give for a number of givens
LabelMatches(givens, label) ==
    /\ (givens >= 30 => label = "easy")
    /\ (givens >= 25 /\ givens < 30 => label = "medium")
    /\ (givens < 25 => label = "hard")

\* the difficulty step leaves every grid as it was
AssessKeepsGrids == pc = "assess" => heap' = heap

\* C9: the label is decided by the number of non-zero cells of puzzle alone:
\* easy for givens >= 30, medium for 25 <= givens < 30, hard for givens < 25;
\* _assess_difficulty does not modify the puzzle.
C9_DifficultyThresholds ==
    /\ [](pc = "done" => LabelMatches(Givens(heap[puzzle]), difficulty))
    /\ [][AssessKeepsGrids]_vars

C9_Witness ==
    /\ pc = "done"
    /\ Givens(heap[puzzle]) = 30
    /\ difficulty = "easy"

\* the top-level _solve_sudoku call has returned
SearchEnded == pc = "solve_return" /\ stack = << >>

\* cells outside the three diagonal boxes that hold a digit
NonSeedPlaced ==
    Cardinality({p \in 1 .. 81 :
        /\ RowMajor[p][1] \div 3 # RowMajor[p][2] \div 3
        /\ heap[grid][RowMajor[p][1]][RowMajor[p][2]] # 0})

\* C10: from any seeding and under any candidate orders the search ends,
\* its top-level call returns True with no empty cell left, it never
\* returns False, and never more than 54 non-seed cells are placed (the
\* recursion is never deeper than 54).
C10_SearchSucceeds ==
    /\ [](SearchEnded => (ret = "True" /\ Givens(heap[grid]) = 81))
    /\ [](grid # 0 => (NonSeedPlaced <= 54 /\ Len(stack) <= 54))
    /\ <>SearchEnded

C10_Witness ==
    /\ SearchEnded
    /\ ret = "True"
    /\ Givens(heap[grid]) = 81
    /\ draws > 57

\* no digit occurs twice in a row, a column or an aligned 3x3 box of g
NoRepeat(g) ==
    \A p \in 1 .. 81 : \A q \in 1 .. 81 :
        LET a == RowMajor[p]
            b == RowMajor[q]
        IN  (/\ p # q
             /\ g[a[1]][a[2]] # 0
             /\ g[a[1]][a[2]] = g[b[1]][b[2]])
            => /\ a[1] # b[1]
               /\ a[2] # b[2]
               /\ ~ (a[1] \div 3 = b[1] \div 3 /\ a[2] \div 3 = b[2] \div 3)

\* the grid differs from g at most in cell (i, j)
SameExcept(g, h, i, j) ==
    \A r \in Idx : \A c \in Idx : (r # i \/ c # j) => g[r][c] = h[r][c]

\* the innermost active _solve_sudoku call
TopCall == stack[Len(stack)]

\* C11: whenever a _solve_sudoku call is between candidates or returns
\* False, the grid is the grid the call received (its cell empty, no other
\* cell changed); when a failed call has returned, its caller finds the grid
\* it received plus its own placement; the seeded diagonal boxes and the
\* enclosing calls' cells are unaltered; no partial grid repeats a digit in
\* a row, column or box.
C11_FailureRestoresGrid ==
    /\ (pc = "solve_loop" =>
          /\ heap[grid] = TopCall.received
          /\ heap[grid][TopCall.i][TopCall.j] = 0)
    /\ (pc = "solve_return" /\ ret = "False" /\ stack # << >> =>
          /\ SameExcept(heap[grid], TopCall.received, TopCall.i, TopCall.j)
          /\ heap[grid][TopCall.i][TopCall.j] = TopCall.numbers[TopCall.k])
    /\ (pc \in {"solve_call", "solve_loop", "solve_return"} =>
          /\ \A d \in 1 .. Len(stack) - 1 :
                /\ SameExcept(stack[d + 1].received, stack[d].received,
                              stack[d].i, stack[d].j)
                /\ stack[d + 1].received[stack[d].i][stack[d].j]
                      = stack[d].numbers[stack[d].k]
                /\ heap[grid][stack[d].i][stack[d].j]
                      = stack[d].numbers[stack[d].k]
          /\ (stack # << >> =>
                \A r \in Idx : \A c \in Idx :
                    r \div 3 = c \div 3 =>
                        /\ heap[grid][r][c] # 0
                        /\ heap[grid][r][c] = stack[1].received[r][c])
          /\ NoRepeat(heap[grid]))

\* a call whose sub-search for its last candidate failed is about to return
\* False
C11_Witness ==
    /\ pc = "solve_loop"
    /\ Len(stack) >= 2
    /\ TopCall.k > 9
    /\ \E m \in 1 .. 9 :
          is_valid(TopCall.received, TopCall.i, TopCall.j, TopCall.numbers[m])
    /\ heap[grid] = TopCall.received

\* the cells of g that hold a digit
Filled(g) == {p \in 1 .. 81 : g[RowMajor[p][1]][RowMajor[p][2]] # 0}

\* the grid shown before the m-th reveal step
GridBeforeStep(m) ==
    IF m = 1 THEN heap[puzzle]
    ELSE frames[video.hold_frames + (m - 1) * video.step_frames].grid

\* the frames are: the initial hold, one block of step_frames frames per
\* empty cell, the final hold
FramesOrdered ==
    LET h     == video.hold_frames
        s     == video.step_frames
        cells == video.cells_to_fill
        n     == Len(cells)
    IN  /\ Len(frames) = 2 * h + s * n
        /\ n = NumEmpty
        /\ \A a \in 1 .. n : \A b \in 1 .. n : a # b => cells[a] # cells[b]
        /\ \A a \in 1 .. n : heap[puzzle][cells[a][1]][cells[a][2]] = 0
        /\ \A k \in 1 .. h :
              /\ frames[k].grid = heap[puzzle]
              /\ frames[k].highlight_cells = << >>
        /\ \A m \in 1 .. n : \A t \in 1 .. s :
              LET f == frames[h + (m - 1) * s + t]
                  c == cells[m]
              IN  /\ f.highlight_cells = << c >>
                  /\ SameExcept(f.grid, GridBeforeStep(m), c[1], c[2])
                  /\ f.grid[c[1]][c[2]] = heap[solution][c[1]][c[2]]
        /\ \A k \in h + s * n + 1 .. 2 * h + s * n :
              /\ frames[k].grid = heap[solution]
              /\ frames[k].highlight_cells = << >>
        /\ \A k \in 1 .. Len(frames) - 1 :
              Filled(frames[k].grid) \subseteq Filled(frames[k + 1].grid)

\* a step of _create_solving_frames leaves puzzle and solution as they were
FramesKeepGrids ==
    pc \in {"video", "frames_loop"} =>
        /\ heap'[puzzle] = heap[puzzle]
        /\ heap'[solution] = heap[solution]

\* C12: the sequence is hold_frames frames of the unmodified puzzle without
\* highlight, then for each empty cell of puzzle exactly once step_frames
\* consecutive frames showing the previous state with only that cell set to
\* its solution value and that cell highlighted, then hold_frames frames of
\* solution without highlight; the set of filled cells never shrinks; the
\* call modifies neither puzzle nor solution.
C12_RevealOrder ==
    /\ [](FramesReturned => FramesOrdered)
    /\ [][FramesKeepGrids]_vars

C12_Witness ==
    /\ FramesReturned
    /\ video.hold_frames > 0
    /\ video.step_frames > 1
    /\ Len(video.cells_to_fill) > 1
    /\ video.cells_to_fill # EmptyCells(heap[puzzle])
    /\ frames[video.hold_frames + 1].highlight_cells
          = << video.cells_to_fill[1] >>
    /\ frames[video.hold_frames + video.step_frames + 1].highlight_cells
          = << video.cells_to_fill[2] >>
    /\ frames[Len(frames)].grid = heap[solution]

=============================================================================
